---- MODULE Spec2Model ----
(***************************************************************************)
(* Model of entity_embed's data modules (data_modules.py): the leak check  *)
(* run by the constructors, the per-stage positive pair sets, and the      *)
(* train / validation / test dataloader factories of the Deduplication,    *)
(* Linkage and Pairwise DataModules, driven by a trainer that reloads the  *)
(* train dataloader every epoch (cli.py, _build_trainer).                  *)
(*                                                                         *)
(* The train command of cli.py is modelled as a second specification,      *)
(* CliSpec, that builds the row dicts from CSV rows, the DataModule from   *)
(* the command line's kwargs, and then runs fit, validation and test.      *)
(*                                                                         *)
(* A row dict is a sequence of rows in insertion order, each row a record  *)
(* [id, cluster, source]; ids are unique within one row dict.  An optional *)
(* value (Python's None) is a sequence of length 0 or 1.                   *)
(***************************************************************************)
EXTENDS Integers, Sequences, FiniteSets, TLC

VARIABLES
    phase,                  \* "new": __init__ not yet run; "ready"; "failed": an exception was raised
    err,                    \* the exception raised, if any
    mode,                   \* which DataModule class: "dedup", "linkage", "pairwise"
    check_for_common_rows,  \* constructor argument
    train_row_dict,
    valid_row_dict,
    test_row_dict,
    row_dict,               \* PairwiseDataModule's single row dict
    left_source,
    batch_size,
    eval_batch_size,
    random_seed,
    train_pos_pair_set,
    valid_pos_pair_set,
    test_pos_pair_set,
    train_neg_pair_set,
    valid_neg_pair_set,
    test_neg_pair_set,
    trainer,                \* the attached trainer, if any: <<[current_epoch |-> e]>>
    loader,                 \* the dataloader returned by the last request made outside the trainer's loop
    epoch_log,              \* the train dataloaders the trainer loaded, one per finished epoch
    stages_done,            \* the stages among "fit" and "test" for which setup(stage) has returned
    kwargs,                 \* the options of the train command (None: the DataModule is used directly)
    csv_files,              \* the rows csv.DictReader yields for the train, valid and test files
    pc,                     \* the train command's position; "api" when the DataModule is used directly
    events,                 \* the steps of the train command that have returned, in order
    global_seed,            \* what the global random generators were seeded with, if anything
    model_cls               \* the model class _build_model chose, if any

vars == <<phase, err, mode, check_for_common_rows, train_row_dict, valid_row_dict,
          test_row_dict, row_dict, left_source, batch_size, eval_batch_size,
          random_seed, train_pos_pair_set, valid_pos_pair_set, test_pos_pair_set,
          train_neg_pair_set, valid_neg_pair_set, test_neg_pair_set, trainer,
          loader, epoch_log, stages_done, kwargs, csv_files, pc, events,
          global_seed, model_cls>>

config_vars == <<mode, check_for_common_rows, train_row_dict, valid_row_dict,
                 test_row_dict, row_dict, left_source, batch_size, eval_batch_size,
                 random_seed, train_neg_pair_set, valid_neg_pair_set,
                 test_neg_pair_set>>

pair_vars == <<train_pos_pair_set, valid_pos_pair_set, test_pos_pair_set>>

cli_vars == <<kwargs, csv_files, pc, events, global_seed, model_cls>>

(***************************************************************************)
(* Bounds of the model.                                                    *)
(***************************************************************************)
MaxId == 3
MaxLeakId == 2
MaxBatchSize == 6
MaxEvalBatchSize == 2
MaxEpoch == 2
MaxCsvRows == 3

(***************************************************************************)
(* Program constants.                                                      *)
(***************************************************************************)
DefaultRandomSeed == 42
DEFAULT_LEFT_SOURCE == "left"

None == <<>>
Some(x) == <<x>>
IsNone(o) == Len(o) = 0
Val(o) == o[1]

Stages == {"fit", "validate", "test", "predict", "None"}
Splits == {"train", "valid", "test"}
Sources == {DEFAULT_LEFT_SOURCE, "right"}
Labels == {10, 20}

(***************************************************************************)
(* Row dicts.                                                              *)
(***************************************************************************)
Keys(rd) == {rd[i].id : i \in 1..Len(rd)}
KeyList(rd) == [i \in 1..Len(rd) |-> rd[i].id]
Row(rd, id) == rd[CHOOSE i \in 1..Len(rd) : rd[i].id = id]

RECURSIVE SortedSeq(_)
SortedSeq(S) ==
    IF S = {} THEN <<>>
    ELSE LET m == CHOOSE x \in S : \A y \in S : x <= y
         IN  <<m>> \o SortedSeq(S \ {m})

MkRows(ids, clusterOf, sourceOf) ==
    [i \in 1..Len(ids) |->
        [id |-> ids[i], cluster |-> clusterOf[ids[i]], source |-> sourceOf[ids[i]]]]

(***************************************************************************)
(* LeakGuard: _check_for_common_rows.  The three intersections are tested  *)
(* in the order train/valid, train/test, valid/test and the first that is  *)
(* not empty raises ValueError, whose message names the two row dicts and  *)
(* prints the common ids.                                                  *)
(***************************************************************************)
NoError == None
ValueError(a, b, ids) == Some([type |-> "ValueError", splits |-> <<a, b>>, ids |-> ids])
ConfigurationError == Some([type |-> "ConfigurationError", splits |-> <<>>, ids |-> {}])

check_skips_valid_test(train, valid, test) ==
    LET train_valid_common_ids == Keys(train) \cap Keys(valid)
        train_test_common_ids == Keys(train) \cap Keys(test)
    IN  IF train_valid_common_ids # {}
        THEN ValueError("train", "valid", train_valid_common_ids)
        ELSE IF train_test_common_ids # {}
        THEN ValueError("train", "test", train_test_common_ids)
        ELSE NoError

check_reports_stale_ids(train, valid, test) ==
    LET train_valid_common_ids == Keys(train) \cap Keys(valid)
        train_test_common_ids == Keys(train) \cap Keys(test)
        valid_test_common_ids == Keys(valid) \cap Keys(test)
    IN  IF train_valid_common_ids # {}
        THEN ValueError("train", "valid", train_valid_common_ids)
        ELSE IF train_test_common_ids # {}
        THEN ValueError("train", "test", train_valid_common_ids)
        ELSE IF valid_test_common_ids # {}
        THEN ValueError("valid", "test", train_test_common_ids)
        ELSE NoError

_check_for_common_rows(train, valid, test) ==
    LET train_valid_common_ids == Keys(train) \cap Keys(valid)
        train_test_common_ids == Keys(train) \cap Keys(test)
        valid_test_common_ids == Keys(valid) \cap Keys(test)
    IN  IF train_valid_common_ids # {}
        THEN ValueError("train", "valid", train_valid_common_ids)
        ELSE IF train_test_common_ids # {}
        THEN ValueError("train", "test", train_test_common_ids)
        ELSE IF valid_test_common_ids # {}
        THEN ValueError("valid", "test", valid_test_common_ids)
        ELSE NoError

(***************************************************************************)
(* The constructors of DeduplicationDataModule and LinkageDataModule run   *)
(* the leak check only when check_for_common_rows is true;                 *)
(* PairwiseDataModule's constructor has no leak check.                     *)
(***************************************************************************)
init_never_checks(m, check, train, valid, test) == NoError

init_check(m, check, train, valid, test) ==
    IF m \in {"dedup", "linkage"} /\ check
    THEN _check_for_common_rows(train, valid, test)
    ELSE NoError

(***************************************************************************)
(* data_utils.utils: ClusterIndexer, SourceSplitter and PairSampler.       *)
(***************************************************************************)
row_dict_to_cluster_dict(rd) ==
    [c \in {rd[i].cluster : i \in 1..Len(rd)} |->
        {rd[i].id : i \in {j \in 1..Len(rd) : rd[j].cluster = c}}]

row_dict_to_left_right_id_set(rd, left) ==
    [left  |-> {rd[i].id : i \in {j \in 1..Len(rd) : rd[j].source = left}},
     right |-> {rd[i].id : i \in {j \in 1..Len(rd) : rd[j].source # left}}]

SplitFails(rd, left) ==
    LET s == row_dict_to_left_right_id_set(rd, left)
    IN  s.left = {} \/ s.right = {}

\* An unordered pair is held once, smaller id first; a linkage pair is (l, r).
cluster_dict_to_id_pairs(cluster_dict, left_id_set, right_id_set) ==
    IF IsNone(left_id_set) /\ IsNone(right_id_set)
    THEN UNION { { <<a, b>> \in cluster_dict[c] \X cluster_dict[c] : a < b } :
                    c \in DOMAIN cluster_dict }
    ELSE UNION { (cluster_dict[c] \cap Val(left_id_set)) \X (cluster_dict[c] \cap Val(right_id_set)) :
                    c \in DOMAIN cluster_dict }

(***************************************************************************)
(* Seeded shuffling, as random.Random(seed).shuffle is used by the batch   *)
(* datasets: a permutation that is a function of the seed alone.  The seed *)
(* is read as a Lehmer code, so seeds 0 .. n!-1 give the n! permutations.  *)
(***************************************************************************)
RemoveAt(s, k) == [i \in 1..(Len(s) - 1) |-> IF i < k THEN s[i] ELSE s[i + 1]]

RECURSIVE Shuffle(_, _)
Shuffle(s, seed) ==
    IF Len(s) <= 1 THEN s
    ELSE LET n == Len(s)
             k == (seed % n) + 1
         IN  <<s[k]>> \o Shuffle(RemoveAt(s, k), seed \div n)

Take(s, n) == [i \in 1..(IF n < Len(s) THEN n ELSE Len(s)) |-> s[i]]
Drop(s, n) == [i \in 1..(IF n < Len(s) THEN Len(s) - n ELSE 0) |-> s[i + n]]

RECURSIVE Chunk(_, _)
Chunk(s, n) ==
    IF Len(s) = 0 THEN <<>>
    ELSE <<Take(s, n)>> \o Chunk(Drop(s, n), n)

RECURSIVE Concat(_)
Concat(ss) == IF Len(ss) = 0 THEN <<>> ELSE Head(ss) \o Concat(Tail(ss))

(***************************************************************************)
(* data_utils.datasets.ClusterDataset.from_cluster_dict: the BatchComposer.*)
(* The cluster labels are shuffled with the seed and walked batch_size     *)
(* clusters at a time; a cluster gives a batch at most                     *)
(* max_cluster_size_in_batch of its members, a seeded sub-sample.          *)
(***************************************************************************)
ClusterContribution(members, max_cluster_size_in_batch, seed) ==
    Take(Shuffle(SortedSeq(members), seed), max_cluster_size_in_batch)

ClusterDataset(rd, bs, max_cluster_size_in_batch, seed) ==
    LET cluster_dict == row_dict_to_cluster_dict(rd)
        cluster_list == Shuffle(SortedSeq(DOMAIN cluster_dict), seed)
        groups == Chunk(cluster_list, bs)
    IN  [g \in 1..Len(groups) |->
            Concat([k \in 1..Len(groups[g]) |->
                ClusterContribution(cluster_dict[groups[g][k]],
                                    max_cluster_size_in_batch, seed)])]

(***************************************************************************)
(* data_utils.datasets.RowDataset: the EvalBatcher.                        *)
(***************************************************************************)
RowDataset(rd, bs) == Chunk(KeyList(rd), bs)

(***************************************************************************)
(* data_utils.datasets.PairDataset: batches of positive and negative       *)
(* pairs; the pairs are shuffled only when a seed is given.                *)
(***************************************************************************)
PairLess(p, q) == p[1] < q[1] \/ (p[1] = q[1] /\ p[2] <= q[2])

RECURSIVE SortedPairs(_)
SortedPairs(S) ==
    IF S = {} THEN <<>>
    ELSE LET m == CHOOSE x \in S : \A y \in S : PairLess(x, y)
         IN  <<m>> \o SortedPairs(S \ {m})

PairDataset(rd, pos_pair_set, neg_pair_set, bs, seed) ==
    LET pairs == SortedPairs(pos_pair_set) \o SortedPairs(neg_pair_set)
    IN  Chunk(IF IsNone(seed) THEN pairs ELSE Shuffle(pairs, Val(seed)), bs)

(***************************************************************************)
(* _set_pair_sets: the positive pair sets a stage (re)builds, as the       *)
(* record of the three fields after the call.                              *)
(***************************************************************************)
DedupPairs(rd) == cluster_dict_to_id_pairs(row_dict_to_cluster_dict(rd), None, None)

LinkagePairs(rd) ==
    LET lr == row_dict_to_left_right_id_set(rd, left_source)
    IN  cluster_dict_to_id_pairs(row_dict_to_cluster_dict(rd), Some(lr.left), Some(lr.right))

PairSets(tr, va, te) == [train |-> tr, valid |-> va, test |-> te]

Deduplication_valid_pairs_from_train(stage) ==
    IF stage = "fit"
    THEN PairSets(Some(DedupPairs(train_row_dict)), Some(DedupPairs(train_row_dict)),
                  test_pos_pair_set)
    ELSE IF stage = "test"
    THEN PairSets(train_pos_pair_set, valid_pos_pair_set, Some(DedupPairs(test_row_dict)))
    ELSE PairSets(train_pos_pair_set, valid_pos_pair_set, test_pos_pair_set)

Deduplication_none_stage_builds_all(stage) ==
    PairSets(IF stage \in {"fit", "None"} THEN Some(DedupPairs(train_row_dict))
             ELSE train_pos_pair_set,
             IF stage \in {"fit", "None"} THEN Some(DedupPairs(valid_row_dict))
             ELSE valid_pos_pair_set,
             IF stage \in {"test", "None"} THEN Some(DedupPairs(test_row_dict))
             ELSE test_pos_pair_set)

Deduplication_set_pair_sets(stage) ==
    IF stage = "fit"
    THEN PairSets(Some(DedupPairs(train_row_dict)), Some(DedupPairs(valid_row_dict)),
                  test_pos_pair_set)
    ELSE IF stage = "test"
    THEN PairSets(train_pos_pair_set, valid_pos_pair_set, Some(DedupPairs(test_row_dict)))
    ELSE PairSets(train_pos_pair_set, valid_pos_pair_set, test_pos_pair_set)

Linkage_pairs_without_sides(stage) ==
    IF stage = "fit"
    THEN PairSets(Some(DedupPairs(train_row_dict)), Some(DedupPairs(valid_row_dict)),
                  test_pos_pair_set)
    ELSE IF stage = "test"
    THEN PairSets(train_pos_pair_set, valid_pos_pair_set, Some(DedupPairs(test_row_dict)))
    ELSE PairSets(train_pos_pair_set, valid_pos_pair_set, test_pos_pair_set)

Linkage_set_pair_sets(stage) ==
    IF stage = "fit"
    THEN PairSets(Some(LinkagePairs(train_row_dict)), Some(LinkagePairs(valid_row_dict)),
                  test_pos_pair_set)
    ELSE IF stage = "test"
    THEN PairSets(train_pos_pair_set, valid_pos_pair_set, Some(LinkagePairs(test_row_dict)))
    ELSE PairSets(train_pos_pair_set, valid_pos_pair_set, test_pos_pair_set)

\* The SourceSplitter calls a stage makes in linkage mode, any of which may fail.
Linkage_split_fails(stage) ==
    \/ stage = "fit" /\ (SplitFails(train_row_dict, left_source)
                            \/ SplitFails(valid_row_dict, left_source))
    \/ stage = "test" /\ SplitFails(test_row_dict, left_source)

(***************************************************************************)
(* The dataloader factories.  A dataloader is the record of what its       *)
(* dataset was built with and the batches it yields; a train dataloader's  *)
(* at_epoch remembers the trainer's current_epoch when the request was     *)
(* made (None: no trainer attached).                                       *)
(***************************************************************************)
Loader(kind, dataset, bs, cap, seed, at_epoch, batches) ==
    [kind |-> kind, dataset |-> dataset, batch_size |-> bs,
     max_cluster_size_in_batch |-> cap, random_seed |-> seed,
     at_epoch |-> at_epoch, batches |-> batches]

current_epoch == IF IsNone(trainer) THEN None ELSE Some(Val(trainer).current_epoch)

train_random_seed_ignores_epoch(seed, tr) == seed

train_random_seed_every_other_epoch(seed, tr) ==
    IF IsNone(tr) THEN seed ELSE seed + (Val(tr).current_epoch \div 2)

train_random_seed(seed, tr) ==
    IF IsNone(tr) THEN seed ELSE seed + Val(tr).current_epoch

max_cluster_size_rounds_up(bs) == (bs + 2) \div 3

max_cluster_size_in_batch(bs) == bs \div 3

train_dataloader_caps_at_batch_size ==
    LET seed == train_random_seed(random_seed, trainer)
        cap  == max_cluster_size_in_batch(batch_size)
    IN  IF mode = "pairwise"
        THEN Loader("train", "PairDataset", batch_size, None, Some(seed), current_epoch,
                    PairDataset(row_dict, Val(train_pos_pair_set), train_neg_pair_set,
                                batch_size, Some(seed)))
        ELSE Loader("train", "ClusterDataset", batch_size, Some(batch_size), Some(seed),
                    current_epoch,
                    ClusterDataset(train_row_dict, batch_size, batch_size, seed))

train_dataloader ==
    LET seed == train_random_seed(random_seed, trainer)
        cap  == max_cluster_size_in_batch(batch_size)
    IN  IF mode = "pairwise"
        THEN Loader("train", "PairDataset", batch_size, None, Some(seed), current_epoch,
                    PairDataset(row_dict, Val(train_pos_pair_set), train_neg_pair_set,
                                batch_size, Some(seed)))
        ELSE Loader("train", "ClusterDataset", batch_size, Some(cap), Some(seed), current_epoch,
                    ClusterDataset(train_row_dict, batch_size, cap, seed))

val_dataloader_uses_batch_size ==
    IF mode = "pairwise"
    THEN Loader("val", "PairDataset", batch_size, None, None, None,
                PairDataset(row_dict, Val(valid_pos_pair_set), valid_neg_pair_set,
                            batch_size, None))
    ELSE Loader("val", "RowDataset", batch_size, None, None, None,
                RowDataset(valid_row_dict, batch_size))

val_dataloader_pairwise_seeded ==
    IF mode = "pairwise"
    THEN Loader("val", "PairDataset", batch_size, None,
                Some(train_random_seed(random_seed, trainer)), None,
                PairDataset(row_dict, Val(valid_pos_pair_set), valid_neg_pair_set,
                            batch_size, Some(train_random_seed(random_seed, trainer))))
    ELSE Loader("val", "RowDataset", eval_batch_size, None, None, None,
                RowDataset(valid_row_dict, eval_batch_size))

val_dataloader ==
    IF mode = "pairwise"
    THEN Loader("val", "PairDataset", batch_size, None, None, None,
                PairDataset(row_dict, Val(valid_pos_pair_set), valid_neg_pair_set,
                            batch_size, None))
    ELSE Loader("val", "RowDataset", eval_batch_size, None, None, None,
                RowDataset(valid_row_dict, eval_batch_size))

test_dataloader_pairwise_eval_batch_size ==
    IF mode = "pairwise"
    THEN Loader("test", "PairDataset", eval_batch_size, None, None, None,
                PairDataset(row_dict, Val(test_pos_pair_set), test_neg_pair_set,
                            eval_batch_size, None))
    ELSE Loader("test", "RowDataset", eval_batch_size, None, None, None,
                RowDataset(test_row_dict, eval_batch_size))

test_dataloader ==
    IF mode = "pairwise"
    THEN Loader("test", "PairDataset", batch_size, None, None, None,
                PairDataset(row_dict, Val(test_pos_pair_set), test_neg_pair_set,
                            batch_size, None))
    ELSE Loader("test", "RowDataset", eval_batch_size, None, None, None,
                RowDataset(test_row_dict, eval_batch_size))

(***************************************************************************)
(* The constructor arguments explored.  Each family varies the arguments   *)
(* one group of operations depends on, within the bounds, around a base    *)
(* configuration.                                                          *)
(***************************************************************************)
IdRange == 1..MaxId
AllIds == SortedSeq(IdRange)
SeedValues == {-1, 0, DefaultRandomSeed}

DefaultCluster == [i \in 1..(MaxId + 30) |-> 10]
DefaultSource == [i \in 1..(MaxId + 30) |-> IF i % 2 = 1 THEN DEFAULT_LEFT_SOURCE ELSE "right"]

\* A small row dict of its own for a split the family does not vary.
OtherRows(s) ==
    LET base == CASE s = "train" -> MaxId + 10 [] s = "valid" -> MaxId + 20 [] OTHER -> MaxId + 30
    IN  MkRows(<<base - 1, base>>, DefaultCluster, DefaultSource)

BaseConfig ==
    [mode |-> "dedup", check_for_common_rows |-> TRUE,
     train_row_dict |-> OtherRows("train"), valid_row_dict |-> OtherRows("valid"),
     test_row_dict |-> OtherRows("test"), row_dict |-> <<>>,
     left_source |-> DEFAULT_LEFT_SOURCE, batch_size |-> 3, eval_batch_size |-> 2,
     random_seed |-> DefaultRandomSeed,
     pos |-> PairSets(None, None, None), neg |-> PairSets({}, {}, {})]

WithSplit(c, s, rd) ==
    CASE s = "train" -> [c EXCEPT !.train_row_dict = rd]
      [] s = "valid" -> [c EXCEPT !.valid_row_dict = rd]
      [] OTHER -> [c EXCEPT !.test_row_dict = rd]

\* The insertion orders of the ids 1 .. n, for every n up to MaxId.
InsertionOrders ==
    {q \in UNION {[1..n -> 1..n] : n \in 0..MaxId} :
        \A i, j \in DOMAIN q : i # j => q[i] # q[j]}

\* Ids shared between the splits in every way; the leak check on or off.
LeakIds == 1..MaxLeakId

LeakConfigs ==
    {[BaseConfig EXCEPT
        !.mode = mc[1], !.check_for_common_rows = mc[2],
        !.train_row_dict = MkRows(SortedSeq({i \in LeakIds : "train" \in member[i]}),
                                  DefaultCluster, DefaultSource),
        !.valid_row_dict = MkRows(SortedSeq({i \in LeakIds : "valid" \in member[i]}),
                                  DefaultCluster, DefaultSource),
        !.test_row_dict = MkRows(SortedSeq({i \in LeakIds : "test" \in member[i]}),
                                 DefaultCluster, DefaultSource)] :
        mc \in {<<"dedup", TRUE>>, <<"linkage", TRUE>>, <<"dedup", FALSE>>},
        member \in [LeakIds -> SUBSET Splits]}

\* Cluster labellings up to renaming: id 1 has the first label, and a label
\* appears only after the labels before it.
Labellings(labels) ==
    {cl \in [IdRange -> labels] :
        \A i \in IdRange : cl[i] = 10 \/ \E j \in 1..(i - 1) : cl[j] = cl[i] - 10}

\* Deduplication: every assignment of the ids to splits and to clusters.
DedupConfigs ==
    {[BaseConfig EXCEPT
        !.train_row_dict = MkRows(SortedSeq({i \in IdRange : split[i] = "train"}),
                                  cl, DefaultSource),
        !.valid_row_dict = MkRows(SortedSeq({i \in IdRange : split[i] = "valid"}),
                                  cl, DefaultSource),
        !.test_row_dict = MkRows(SortedSeq({i \in IdRange : split[i] = "test"}),
                                 cl, DefaultSource)] :
        split \in [IdRange -> Splits], cl \in Labellings(Labels)}

\* Linkage: one split holds the ids in every cluster / source arrangement
\* (id 1 has the default left source; left_source puts it on either side).
LinkageConfigs ==
    {WithSplit([BaseConfig EXCEPT !.mode = "linkage", !.left_source = ls],
               focus, MkRows(AllIds, cl, so)) :
        focus \in Splits, cl \in Labellings(Labels),
        so \in {f \in [IdRange -> Sources] : f[1] = DEFAULT_LEFT_SOURCE},
        ls \in Sources}

\* Training batches: seeds, batch sizes and cluster arrangements of the train split.
TrainConfigs ==
    {[BaseConfig EXCEPT
        !.mode = m, !.random_seed = seed, !.batch_size = bs,
        !.train_row_dict = MkRows(AllIds, cl, DefaultSource)] :
        m \in {"dedup", "linkage"}, seed \in SeedValues, bs \in 1..MaxBatchSize,
        cl \in Labellings({10 * i : i \in IdRange})}

\* Evaluation batches: a validation or test split in every insertion order.
EvalConfigs ==
    {WithSplit([BaseConfig EXCEPT !.mode = m, !.eval_batch_size = ebs, !.random_seed = 0],
               focus, MkRows(ids, DefaultCluster, DefaultSource)) :
        m \in {"dedup", "linkage"}, ebs \in 1..MaxEvalBatchSize,
        focus \in {"valid", "test"}, ids \in InsertionOrders}

\* Pairwise: explicit pair sets over one row dict.
PairwiseConfigs ==
    {[BaseConfig EXCEPT
        !.mode = "pairwise", !.random_seed = seed, !.batch_size = bs,
        !.eval_batch_size = ebs,
        !.train_row_dict = <<>>, !.valid_row_dict = <<>>, !.test_row_dict = <<>>,
        !.row_dict = MkRows(AllIds, DefaultCluster, DefaultSource),
        !.pos = PairSets(Some({<<1, 2>>, <<1, 3>>}), Some({<<1, 2>>, <<2, 3>>}),
                         Some({<<1, 3>>, <<2, 3>>})),
        !.neg = PairSets({<<2, 3>>}, {<<1, 3>>}, {<<1, 2>>})] :
        seed \in SeedValues, bs \in 1..MaxBatchSize, ebs \in 1..MaxEvalBatchSize}

Configs ==
    LeakConfigs \cup DedupConfigs \cup LinkageConfigs \cup TrainConfigs
        \cup EvalConfigs \cup PairwiseConfigs

(***************************************************************************)
(* Init: the arguments of a constructor call that has not run yet.         *)
(***************************************************************************)
Init ==
    \E c \in Configs :
        /\ phase = "new"
        /\ err = NoError
        /\ mode = c.mode
        /\ check_for_common_rows = c.check_for_common_rows
        /\ train_row_dict = c.train_row_dict
        /\ valid_row_dict = c.valid_row_dict
        /\ test_row_dict = c.test_row_dict
        /\ row_dict = c.row_dict
        /\ left_source = c.left_source
        /\ batch_size = c.batch_size
        /\ eval_batch_size = c.eval_batch_size
        /\ random_seed = c.random_seed
        /\ train_pos_pair_set = c.pos.train
        /\ valid_pos_pair_set = c.pos.valid
        /\ test_pos_pair_set = c.pos.test
        /\ train_neg_pair_set = c.neg.train
        /\ valid_neg_pair_set = c.neg.valid
        /\ test_neg_pair_set = c.neg.test
        /\ trainer = None
        /\ loader = None
        /\ epoch_log = <<>>
        /\ stages_done = {}
        /\ kwargs = None
        /\ csv_files = None
        /\ pc = "api"
        /\ events = <<>>
        /\ global_seed = None
        /\ model_cls = None

(***************************************************************************)
(* __init__: the leak check, then the fields; the pair sets start unset    *)
(* (PairwiseDataModule stores the pair sets it is given).                  *)
(***************************************************************************)
Construct ==
    /\ phase = "new"
    /\ init_check(mode, check_for_common_rows, train_row_dict, valid_row_dict,
                  test_row_dict) = NoError
    /\ phase' = "ready"
    /\ train_pos_pair_set' = IF mode = "pairwise" THEN train_pos_pair_set ELSE None
    /\ valid_pos_pair_set' = IF mode = "pairwise" THEN valid_pos_pair_set ELSE None
    /\ test_pos_pair_set' = IF mode = "pairwise" THEN test_pos_pair_set ELSE None
    /\ UNCHANGED <<err, config_vars, trainer, loader, epoch_log, stages_done,
                   cli_vars>>

ConstructFails ==
    /\ phase = "new"
    /\ init_check(mode, check_for_common_rows, train_row_dict, valid_row_dict,
                  test_row_dict) # NoError
    /\ phase' = "failed"
    /\ err' = init_check(mode, check_for_common_rows, train_row_dict, valid_row_dict,
                         test_row_dict)
    /\ UNCHANGED <<config_vars, pair_vars, trainer, loader, epoch_log, stages_done,
                   cli_vars>>

(***************************************************************************)
(* setup(stage): _set_pair_sets, then logging.  PairwiseDataModule         *)
(* inherits LightningDataModule's setup, which does nothing.               *)
(***************************************************************************)
set_pair_sets(stage) ==
    CASE mode = "dedup" -> Deduplication_set_pair_sets(stage)
      [] mode = "linkage" -> Linkage_set_pair_sets(stage)
      [] OTHER -> PairSets(train_pos_pair_set, valid_pos_pair_set, test_pos_pair_set)

Setup(stage) ==
    /\ phase = "ready"
    /\ ~(mode = "linkage" /\ Linkage_split_fails(stage))
    /\ train_pos_pair_set' = set_pair_sets(stage).train
    /\ valid_pos_pair_set' = set_pair_sets(stage).valid
    /\ test_pos_pair_set' = set_pair_sets(stage).test
    /\ stages_done' = stages_done \cup ({stage} \cap {"fit", "test"})
    /\ UNCHANGED <<phase, err, config_vars, trainer, loader, epoch_log,
                   cli_vars>>

SetupFails(stage) ==
    /\ phase = "ready"
    /\ mode = "linkage" /\ Linkage_split_fails(stage)
    /\ phase' = "failed"
    /\ err' = ConfigurationError
    /\ UNCHANGED <<config_vars, pair_vars, trainer, loader, epoch_log, stages_done,
                   cli_vars>>

(***************************************************************************)
(* The trainer: trainer.fit attaches itself to the datamodule; with        *)
(* reload_dataloaders_every_epoch it asks for the train dataloader at the  *)
(* start of every epoch and advances current_epoch at the end of it.       *)
(***************************************************************************)
AttachTrainer ==
    /\ phase = "ready"
    /\ IsNone(trainer)
    /\ trainer' = Some([current_epoch |-> 0])
    /\ UNCHANGED <<phase, err, config_vars, pair_vars, loader, epoch_log, stages_done,
                   cli_vars>>

TrainerEpoch ==
    /\ phase = "ready"
    /\ ~IsNone(trainer)
    /\ Val(trainer).current_epoch < MaxEpoch
    /\ epoch_log' = Append(epoch_log, train_dataloader)
    /\ trainer' = Some([current_epoch |-> Val(trainer).current_epoch + 1])
    /\ UNCHANGED <<phase, err, config_vars, pair_vars, loader, stages_done,
                   cli_vars>>

TrainDataloader ==
    /\ phase = "ready"
    /\ loader' = Some(train_dataloader)
    /\ UNCHANGED <<phase, err, config_vars, pair_vars, trainer, epoch_log, stages_done,
                   cli_vars>>

ValDataloader ==
    /\ phase = "ready"
    /\ loader' = Some(val_dataloader)
    /\ UNCHANGED <<phase, err, config_vars, pair_vars, trainer, epoch_log, stages_done,
                   cli_vars>>

TestDataloader ==
    /\ phase = "ready"
    /\ loader' = Some(test_dataloader)
    /\ UNCHANGED <<phase, err, config_vars, pair_vars, trainer, epoch_log, stages_done,
                   cli_vars>>

Next ==
    \/ Construct
    \/ ConstructFails
    \/ \E stage \in Stages : Setup(stage)
    \/ \E stage \in Stages : SetupFails(stage)
    \/ AttachTrainer
    \/ TrainerEpoch
    \/ TrainDataloader
    \/ ValDataloader
    \/ TestDataloader

Spec == Init /\ [][Next]_vars

(***************************************************************************)
(* cli.py: the train command.  An option that was not given is None; a     *)
(* string option may be given as the empty string and an integer option as *)
(* 0, both of which Python's truth test takes for false.                   *)
(***************************************************************************)
KeyError == Some([type |-> "KeyError", splits |-> <<>>, ids |-> {}])

TruthyStr(o) == ~IsNone(o) /\ Val(o) # ""
TruthyInt(o) == ~IsNone(o) /\ Val(o) # 0

\* _set_random_seeds: the seed handed to torch, numpy and random, if any
\* (the test is "is not None").
_set_random_seeds(kw) == kw.random_seed

\* int() of a string of decimal digits, the string held as its digits.
RECURSIVE int(_)
int(digits) ==
    IF Len(digits) = 0 THEN 0
    ELSE 10 * int(SubSeq(digits, 1, Len(digits) - 1)) + digits[Len(digits)]

\* row_dict[key] = row on a dict that keeps insertion order: a key already
\* present keeps its place and gets the new row.
DictSet(rd, row) ==
    IF row.id \in Keys(rd)
    THEN [i \in 1..Len(rd) |-> IF rd[i].id = row.id THEN row ELSE rd[i]]
    ELSE Append(rd, row)

\* _build_row_dict: the rows of one CSV file, in file order, with the id and
\* the cluster label forced to int.
RECURSIVE _build_row_dict(_)
_build_row_dict(csv_rows) ==
    IF Len(csv_rows) = 0 THEN <<>>
    ELSE LET raw == csv_rows[Len(csv_rows)]
             row == [id |-> int(raw.id), cluster |-> int(raw.cluster),
                     source |-> raw.source]
         IN  DictSet(_build_row_dict(SubSeq(csv_rows, 1, Len(csv_rows) - 1)), row)

\* _is_record_linkage: raises KeyError, or returns bool(left_source).
_is_record_linkage(kw) ==
    LET left == TruthyStr(kw.left_source)
        source_attr == TruthyStr(kw.source_attr)
    IN  IF (left /\ ~source_attr) \/ (~left /\ source_attr)
        THEN [raises |-> TRUE, value |-> FALSE]
        ELSE [raises |-> FALSE, value |-> left]

\* _build_datamodule: the class and the constructor arguments chosen from
\* kwargs.  random_seed is passed only when it is truthy, and
\* check_for_common_rows never, so the constructor's defaults apply.
_build_datamodule(kw) ==
    [raises |-> _is_record_linkage(kw).raises,
     mode |-> IF _is_record_linkage(kw).value THEN "linkage" ELSE "dedup",
     left_source |-> IF _is_record_linkage(kw).value THEN Val(kw.left_source)
                     ELSE DEFAULT_LEFT_SOURCE,
     batch_size |-> kw.batch_size,
     eval_batch_size |-> kw.eval_batch_size,
     random_seed |-> IF TruthyInt(kw.random_seed) THEN Val(kw.random_seed)
                     ELSE DefaultRandomSeed,
     check_for_common_rows |-> TRUE]

\* _build_model: the model class, or KeyError from _is_record_linkage.
_build_model(kw) ==
    [raises |-> _is_record_linkage(kw).raises,
     model_cls |-> IF _is_record_linkage(kw).value THEN "LinkageEmbed" ELSE "EntityEmbed"]

\* _build_trainer: raises KeyError when only one of tb_name and tb_save_dir
\* is given.
_build_trainer_raises(kw) ==
    /\ ~(TruthyStr(kw.tb_name) /\ TruthyStr(kw.tb_save_dir))
    /\ (TruthyStr(kw.tb_name) \/ TruthyStr(kw.tb_save_dir))

\* The steps of train, in the order of its body.
train_model_before_datamodule ==
    <<"set_random_seeds", "row_dicts", "model", "datamodule", "trainer", "fit",
      "validate_best", "test">>

train_steps ==
    <<"set_random_seeds", "row_dicts", "datamodule", "model", "trainer", "fit",
      "validate_best", "test">>

StepAfter(step) ==
    LET i == CHOOSE k \in 1..Len(train_steps) : train_steps[k] = step
    IN  IF i = Len(train_steps) THEN "done" ELSE train_steps[i + 1]

(***************************************************************************)
(* The command lines and CSV files explored.  csv.DictReader yields every  *)
(* field as a string; a number is written as its decimal digits.           *)
(***************************************************************************)
RECURSIVE Str(_)
Str(n) == IF n < 10 THEN <<n>> ELSE Str(n \div 10) \o <<n % 10>>

CsvOf(rd) ==
    [i \in 1..Len(rd) |->
        [id |-> Str(rd[i].id), cluster |-> Str(rd[i].cluster), source |-> rd[i].source]]

BaseKwargs ==
    [source_attr |-> None, left_source |-> None, random_seed |-> None,
     batch_size |-> 3, eval_batch_size |-> 2, tb_name |-> None, tb_save_dir |-> None]

BaseCsv ==
    [train |-> CsvOf(OtherRows("train")), valid |-> CsvOf(OtherRows("valid")),
     test |-> CsvOf(OtherRows("test"))]

BaseRun == [kwargs |-> BaseKwargs, csv_files |-> BaseCsv]

LinkageKwargs ==
    [BaseKwargs EXCEPT !.source_attr = Some("source"), !.left_source = Some(DEFAULT_LEFT_SOURCE)]

\* --source_attr and --left_source: not given, given empty, given.
ModeRuns ==
    {[BaseRun EXCEPT !.kwargs.source_attr = sa, !.kwargs.left_source = ls] :
        sa \in {None, Some(""), Some("source")},
        ls \in {None, Some("")} \cup {Some(x) : x \in Sources}}

\* --random_seed: not given, or any of the seed values, in either mode.
SeedRuns ==
    {[BaseRun EXCEPT !.kwargs = [kw EXCEPT !.random_seed = seed]] :
        kw \in {BaseKwargs, LinkageKwargs},
        seed \in {None} \cup {Some(x) : x \in SeedValues}}

\* --tb_name and --tb_save_dir: not given, given empty, given.
TbRuns ==
    {[BaseRun EXCEPT !.kwargs.tb_name = name, !.kwargs.tb_save_dir = dir] :
        name \in {None, Some(""), Some("tb")}, dir \in {None, Some(""), Some("tb")}}

\* The train file: up to MaxCsvRows rows whose id fields are "1", "2" or "01".
CsvRowValues ==
    {[id |-> id, cluster |-> Str(cl), source |-> DEFAULT_LEFT_SOURCE] :
        id \in {<<1>>, <<2>>, <<0, 1>>}, cl \in Labels}

CsvRuns ==
    {[BaseRun EXCEPT !.csv_files.train = rows] :
        rows \in UNION {[1..n -> CsvRowValues] : n \in 0..MaxCsvRows}}

\* Ids shared between the three files in every way, in either mode.
LeakRuns ==
    {[kwargs |-> kw,
      csv_files |->
        [train |-> CsvOf(MkRows(SortedSeq({i \in LeakIds : "train" \in member[i]}),
                                DefaultCluster, DefaultSource)),
         valid |-> CsvOf(MkRows(SortedSeq({i \in LeakIds : "valid" \in member[i]}),
                                DefaultCluster, DefaultSource)),
         test |-> CsvOf(MkRows(SortedSeq({i \in LeakIds : "test" \in member[i]}),
                               DefaultCluster, DefaultSource))]] :
        kw \in {BaseKwargs, LinkageKwargs}, member \in [LeakIds -> SUBSET Splits]}

\* Linkage with one file cut short, so that it may lack a left or a right row.
ShortFileRuns ==
    {[kwargs |-> LinkageKwargs,
      csv_files |-> [BaseCsv EXCEPT ![focus] = SubSeq(BaseCsv[focus], 1, n)]] :
        focus \in Splits, n \in 0..1}

Runs == ModeRuns \cup SeedRuns \cup TbRuns \cup CsvRuns \cup LeakRuns \cup ShortFileRuns

(***************************************************************************)
(* CliInit: train has been called and nothing has run yet; no DataModule   *)
(* exists (its fields hold the constructor's defaults, or nothing).        *)
(***************************************************************************)
CliInit ==
    \E run \in Runs :
        /\ kwargs = run.kwargs
        /\ csv_files = run.csv_files
        /\ pc = train_steps[1]
        /\ events = <<>>
        /\ global_seed = None
        /\ model_cls = None
        /\ phase = "new"
        /\ err = NoError
        /\ mode = "none"
        /\ check_for_common_rows = TRUE
        /\ train_row_dict = <<>>
        /\ valid_row_dict = <<>>
        /\ test_row_dict = <<>>
        /\ row_dict = <<>>
        /\ left_source = DEFAULT_LEFT_SOURCE
        /\ batch_size = 0
        /\ eval_batch_size = 0
        /\ random_seed = DefaultRandomSeed
        /\ train_pos_pair_set = None
        /\ valid_pos_pair_set = None
        /\ test_pos_pair_set = None
        /\ train_neg_pair_set = {}
        /\ valid_neg_pair_set = {}
        /\ test_neg_pair_set = {}
        /\ trainer = None
        /\ loader = None
        /\ epoch_log = <<>>
        /\ stages_done = {}

(***************************************************************************)
(* train: one action per call of its body.  An exception propagates out of *)
(* train (nothing catches it): pc becomes "raised" and nothing more runs.  *)
(* events lists the calls entered so far.                                  *)
(***************************************************************************)
dm_vars == <<phase, err, config_vars, pair_vars, trainer, loader, epoch_log, stages_done>>

SetRandomSeeds ==
    /\ pc = "set_random_seeds"
    /\ global_seed' = _set_random_seeds(kwargs)
    /\ pc' = StepAfter("set_random_seeds")
    /\ events' = Append(events, "set_random_seeds")
    /\ UNCHANGED <<kwargs, csv_files, model_cls, dm_vars>>

BuildRowDicts ==
    /\ pc = "row_dicts"
    /\ train_row_dict' = _build_row_dict(csv_files.train)
    /\ valid_row_dict' = _build_row_dict(csv_files.valid)
    /\ test_row_dict' = _build_row_dict(csv_files.test)
    /\ pc' = StepAfter("row_dicts")
    /\ events' = Append(events, "row_dicts")
    /\ UNCHANGED <<kwargs, csv_files, global_seed, model_cls, phase, err, mode,
                   check_for_common_rows, row_dict, left_source, batch_size,
                   eval_batch_size, random_seed, train_neg_pair_set, valid_neg_pair_set,
                   test_neg_pair_set, pair_vars, trainer, loader, epoch_log, stages_done>>

\* _build_datamodule returns the DataModule its class's constructor built.
BuildDatamodule ==
    /\ pc = "datamodule"
    /\ LET dm == _build_datamodule(kwargs)
       IN  /\ ~dm.raises
           /\ init_check(dm.mode, dm.check_for_common_rows, train_row_dict,
                         valid_row_dict, test_row_dict) = NoError
           /\ mode' = dm.mode
           /\ left_source' = dm.left_source
           /\ batch_size' = dm.batch_size
           /\ eval_batch_size' = dm.eval_batch_size
           /\ random_seed' = dm.random_seed
           /\ check_for_common_rows' = dm.check_for_common_rows
    /\ phase' = "ready"
    /\ pc' = StepAfter("datamodule")
    /\ events' = Append(events, "datamodule")
    /\ UNCHANGED <<kwargs, csv_files, global_seed, model_cls, err, train_row_dict,
                   valid_row_dict, test_row_dict, row_dict, train_neg_pair_set,
                   valid_neg_pair_set, test_neg_pair_set, pair_vars, trainer, loader,
                   epoch_log, stages_done>>

\* _build_datamodule raises: KeyError from _is_record_linkage before any
\* constructor is called, or the constructor's leak error.
BuildDatamoduleRaises ==
    /\ pc = "datamodule"
    /\ LET dm == _build_datamodule(kwargs)
       IN  \/ /\ dm.raises
              /\ err' = KeyError
              /\ UNCHANGED <<phase, mode, left_source, batch_size, eval_batch_size,
                             random_seed, check_for_common_rows>>
           \/ /\ ~dm.raises
              /\ init_check(dm.mode, dm.check_for_common_rows, train_row_dict,
                            valid_row_dict, test_row_dict) # NoError
              /\ err' = init_check(dm.mode, dm.check_for_common_rows, train_row_dict,
                                   valid_row_dict, test_row_dict)
              /\ phase' = "failed"
              /\ mode' = dm.mode
              /\ left_source' = dm.left_source
              /\ batch_size' = dm.batch_size
              /\ eval_batch_size' = dm.eval_batch_size
              /\ random_seed' = dm.random_seed
              /\ check_for_common_rows' = dm.check_for_common_rows
    /\ pc' = "raised"
    /\ events' = Append(events, "datamodule")
    /\ UNCHANGED <<kwargs, csv_files, global_seed, model_cls, train_row_dict,
                   valid_row_dict, test_row_dict, row_dict, train_neg_pair_set,
                   valid_neg_pair_set, test_neg_pair_set, pair_vars, trainer, loader,
                   epoch_log, stages_done>>

BuildModel ==
    /\ pc = "model"
    /\ IF _build_model(kwargs).raises
       THEN /\ err' = KeyError
            /\ pc' = "raised"
            /\ UNCHANGED model_cls
       ELSE /\ model_cls' = Some(_build_model(kwargs).model_cls)
            /\ pc' = StepAfter("model")
            /\ UNCHANGED err
    /\ events' = Append(events, "model")
    /\ UNCHANGED <<kwargs, csv_files, global_seed, phase, config_vars, pair_vars,
                   trainer, loader, epoch_log, stages_done>>

BuildTrainer ==
    /\ pc = "trainer"
    /\ ~_build_trainer_raises(kwargs)
    /\ pc' = StepAfter("trainer")
    /\ events' = Append(events, "trainer")
    /\ UNCHANGED <<kwargs, csv_files, global_seed, model_cls, dm_vars>>

BuildTrainerRaises ==
    /\ pc = "trainer"
    /\ _build_trainer_raises(kwargs)
    /\ err' = KeyError
    /\ pc' = "raised"
    /\ events' = Append(events, "trainer")
    /\ UNCHANGED <<kwargs, csv_files, global_seed, model_cls, phase, config_vars,
                   pair_vars, trainer, loader, epoch_log, stages_done>>

\* trainer.fit(model, datamodule): the trainer attaches itself, calls
\* setup("fit"), and runs its epochs, reloading the train dataloader for
\* each; when it stops is the trainer's business.
FitSetup ==
    /\ pc = "fit"
    /\ phase = "ready"
    /\ ~(mode = "linkage" /\ Linkage_split_fails("fit"))
    /\ trainer' = Some([current_epoch |-> 0])
    /\ train_pos_pair_set' = set_pair_sets("fit").train
    /\ valid_pos_pair_set' = set_pair_sets("fit").valid
    /\ test_pos_pair_set' = set_pair_sets("fit").test
    /\ stages_done' = stages_done \cup {"fit"}
    /\ pc' = "fitting"
    /\ events' = Append(events, "fit")
    /\ UNCHANGED <<kwargs, csv_files, global_seed, model_cls, phase, err, config_vars,
                   loader, epoch_log>>

FitSetupRaises ==
    /\ pc = "fit"
    /\ phase = "ready"
    /\ mode = "linkage" /\ Linkage_split_fails("fit")
    /\ trainer' = Some([current_epoch |-> 0])
    /\ phase' = "failed"
    /\ err' = ConfigurationError
    /\ pc' = "raised"
    /\ events' = Append(events, "fit")
    /\ UNCHANGED <<kwargs, csv_files, global_seed, model_cls, config_vars, pair_vars,
                   loader, epoch_log, stages_done>>

FitEpoch ==
    /\ pc = "fitting"
    /\ TrainerEpoch

FitReturns ==
    /\ pc = "fitting"
    /\ pc' = StepAfter("fit")
    /\ UNCHANGED <<kwargs, csv_files, events, global_seed, model_cls, dm_vars>>

\* validate_best(trainer): the validation pass on the best checkpoint; only
\* that it ran is recorded.
ValidateBest ==
    /\ pc = "validate_best"
    /\ pc' = StepAfter("validate_best")
    /\ events' = Append(events, "validate_best")
    /\ UNCHANGED <<kwargs, csv_files, global_seed, model_cls, dm_vars>>

\* trainer.test(ckpt_path="best"): setup("test"), then the test dataloader.
TrainerTest ==
    /\ pc = "test"
    /\ phase = "ready"
    /\ ~(mode = "linkage" /\ Linkage_split_fails("test"))
    /\ train_pos_pair_set' = set_pair_sets("test").train
    /\ valid_pos_pair_set' = set_pair_sets("test").valid
    /\ test_pos_pair_set' = set_pair_sets("test").test
    /\ stages_done' = stages_done \cup {"test"}
    /\ loader' = Some(test_dataloader)
    /\ pc' = StepAfter("test")
    /\ events' = Append(events, "test")
    /\ UNCHANGED <<kwargs, csv_files, global_seed, model_cls, phase, err, config_vars,
                   trainer, epoch_log>>

TrainerTestRaises ==
    /\ pc = "test"
    /\ phase = "ready"
    /\ mode = "linkage" /\ Linkage_split_fails("test")
    /\ phase' = "failed"
    /\ err' = ConfigurationError
    /\ pc' = "raised"
    /\ events' = Append(events, "test")
    /\ UNCHANGED <<kwargs, csv_files, global_seed, model_cls, config_vars, pair_vars,
                   trainer, loader, epoch_log, stages_done>>

CliNext ==
    \/ SetRandomSeeds
    \/ BuildRowDicts
    \/ BuildDatamodule
    \/ BuildDatamoduleRaises
    \/ BuildModel
    \/ BuildTrainer
    \/ BuildTrainerRaises
    \/ FitSetup
    \/ FitSetupRaises
    \/ FitEpoch
    \/ FitReturns
    \/ ValidateBest
    \/ TrainerTest
    \/ TrainerTestRaises

CliSpec == CliInit /\ [][CliNext]_vars

(***************************************************************************)
(* Properties.                                                             *)
(***************************************************************************)
IsDedupOrLinkage == mode \in {"dedup", "linkage"}

PairwiseDisjointIds ==
    /\ Keys(train_row_dict) \cap Keys(valid_row_dict) = {}
    /\ Keys(train_row_dict) \cap Keys(test_row_dict) = {}
    /\ Keys(valid_row_dict) \cap Keys(test_row_dict) = {}

AnyPairSetBuilt ==
    ~IsNone(train_pos_pair_set) \/ ~IsNone(valid_pos_pair_set) \/ ~IsNone(test_pos_pair_set)

LeakErrorRaised == phase = "failed" /\ ~IsNone(err) /\ Val(err).type = "ValueError"

SplitRows(s) ==
    CASE s = "train" -> train_row_dict
      [] s = "valid" -> valid_row_dict
      [] OTHER -> test_row_dict

SplitPairSet(s) ==
    CASE s = "train" -> train_pos_pair_set
      [] s = "valid" -> valid_pos_pair_set
      [] OTHER -> test_pos_pair_set

\* C1 (as stated): in a Deduplication or Linkage DataModule, whenever a pair
\* set has been built or a dataloader handed out, the id sets of the three
\* row dicts are pairwise disjoint, and a construction with a shared id has
\* raised the leak error, however the DataModule was constructed.
C1_NoLeakHoweverConstructed ==
    IsDedupOrLinkage =>
        /\ (AnyPairSetBuilt \/ ~IsNone(loader)) => PairwiseDisjointIds
        /\ (phase # "new" /\ ~PairwiseDisjointIds) => LeakErrorRaised

\* C1 (amended): the same, for a DataModule constructed with
\* check_for_common_rows true (the default): whenever a pair set has been
\* built or a dataloader handed out the three id sets are pairwise disjoint,
\* and a construction with a shared id has raised the leak error.
C1_NoLeakWhenChecked ==
    (IsDedupOrLinkage /\ check_for_common_rows) =>
        /\ (AnyPairSetBuilt \/ ~IsNone(loader)) => PairwiseDisjointIds
        /\ (phase # "new" /\ ~PairwiseDisjointIds) => LeakErrorRaised

C1_Witness ==
    /\ mode = "linkage" /\ check_for_common_rows
    /\ ~IsNone(train_pos_pair_set) /\ ~IsNone(test_pos_pair_set) /\ ~IsNone(loader)
    /\ Len(train_row_dict) > 0 /\ Len(valid_row_dict) > 0 /\ Len(test_row_dict) > 0

\* C2: the leak check fails if and only if at least one of the three pairwise
\* intersections of the id sets is not empty; with pairwise disjoint id sets
\* it returns normally (the constructor completes).
C2_LeakCheckFailsIffOverlap ==
    (IsDedupOrLinkage /\ check_for_common_rows /\ phase # "new") =>
        /\ LeakErrorRaised <=> ~PairwiseDisjointIds
        /\ PairwiseDisjointIds => (phase = "ready" \/ Val(err).type = "ConfigurationError")

C2_Witness ==
    /\ LeakErrorRaised
    /\ Keys(train_row_dict) \cap Keys(valid_row_dict) = {}
    /\ Keys(train_row_dict) \cap Keys(test_row_dict) = {}
    /\ Keys(valid_row_dict) \cap Keys(test_row_dict) # {}

\* C3: the error of a failed leak check names a pair of distinct splits whose
\* id intersection is not empty and reports exactly the ids of that
\* intersection, also when more than one pair of splits overlaps.
C3_LeakErrorNamesOffendingPair ==
    LeakErrorRaised =>
        LET e == Val(err)
            common == Keys(SplitRows(e.splits[1])) \cap Keys(SplitRows(e.splits[2]))
        IN  /\ e.splits[1] \in Splits /\ e.splits[2] \in Splits
            /\ e.splits[1] # e.splits[2]
            /\ common # {}
            /\ e.ids = common

C3_Witness ==
    /\ LeakErrorRaised
    /\ Keys(train_row_dict) \cap Keys(valid_row_dict) = {}
    /\ Keys(train_row_dict) \cap Keys(test_row_dict) # {}
    /\ Keys(valid_row_dict) \cap Keys(test_row_dict) # {}
    /\ Keys(train_row_dict) \cap Keys(test_row_dict) # Keys(valid_row_dict) \cap Keys(test_row_dict)
    /\ Val(err).splits = <<"train", "test">>

\* The rows of a split, read directly.
ClusterOf(rd, id) == Row(rd, id).cluster
SourceOf(rd, id) == Row(rd, id).source
Members(rd, c) == {id \in Keys(rd) : ClusterOf(rd, id) = c}
ClusterLabels(rd) == {rd[i].cluster : i \in 1..Len(rd)}
LeftIds(rd) == {id \in Keys(rd) : SourceOf(rd, id) = left_source}
RightIds(rd) == {id \in Keys(rd) : SourceOf(rd, id) # left_source}
PairsOfCluster(rd, P, c) == {p \in P : ClusterOf(rd, p[1]) = c}

\* C4: in deduplication mode the positive pair set setup builds for a split
\* is exactly the unordered 2-combinations of each cluster of that split's
\* own rows: both ids of a pair are ids of the split with the same cluster
\* label, no pair is a self-pair or held in both orders, every two distinct
\* ids of one cluster are paired, and a cluster of n members gives exactly
\* n(n-1)/2 pairs (none for n = 1).
C4_DedupPairsAreClusterCombinations ==
    mode = "dedup" =>
        \A s \in Splits :
            ~IsNone(SplitPairSet(s)) =>
                LET rd == SplitRows(s)
                    P == Val(SplitPairSet(s))
                IN  /\ \A p \in P :
                            /\ p[1] \in Keys(rd) /\ p[2] \in Keys(rd)
                            /\ p[1] # p[2]
                            /\ ClusterOf(rd, p[1]) = ClusterOf(rd, p[2])
                            /\ <<p[2], p[1]>> \notin P
                    /\ \A a, b \in Keys(rd) :
                            (a # b /\ ClusterOf(rd, a) = ClusterOf(rd, b))
                                => (<<a, b>> \in P \/ <<b, a>> \in P)
                    /\ \A c \in ClusterLabels(rd) :
                            LET n == Cardinality(Members(rd, c))
                            IN  2 * Cardinality(PairsOfCluster(rd, P, c)) = n * (n - 1)

C4_Witness ==
    /\ mode = "dedup"
    /\ ~IsNone(train_pos_pair_set) /\ ~IsNone(valid_pos_pair_set)
    /\ \E c \in ClusterLabels(train_row_dict) : Cardinality(Members(train_row_dict, c)) = 3
    /\ Cardinality(Val(train_pos_pair_set)) = 3
    /\ Cardinality(Val(valid_pos_pair_set)) = 1

\* C5: in linkage mode, with a split's left ids those whose source equals
\* left_source and its right ids all the others, the positive pair set setup
\* builds holds for each cluster C exactly |C /\ left| * |C /\ right| pairs,
\* every pair has one id on the left and one on the right, both of the same
\* cluster; a cluster with all its members on one side gives no pair.
C5_LinkagePairsCrossSides ==
    mode = "linkage" =>
        \A s \in Splits :
            ~IsNone(SplitPairSet(s)) =>
                LET rd == SplitRows(s)
                    P == Val(SplitPairSet(s))
                IN  /\ \A p \in P :
                            /\ p[1] \in Keys(rd) /\ p[2] \in Keys(rd)
                            /\ ClusterOf(rd, p[1]) = ClusterOf(rd, p[2])
                            /\ \/ p[1] \in LeftIds(rd) /\ p[2] \in RightIds(rd)
                               \/ p[1] \in RightIds(rd) /\ p[2] \in LeftIds(rd)
                            /\ <<p[2], p[1]>> \notin P
                    /\ \A c \in ClusterLabels(rd) :
                            Cardinality(PairsOfCluster(rd, P, c)) =
                                Cardinality(Members(rd, c) \cap LeftIds(rd))
                                    * Cardinality(Members(rd, c) \cap RightIds(rd))

C5_Witness ==
    /\ mode = "linkage"
    /\ ~IsNone(test_pos_pair_set)
    /\ Cardinality(Val(test_pos_pair_set)) = 2
    /\ \E c \in ClusterLabels(test_row_dict) :
            /\ Cardinality(Members(test_row_dict, c) \cap LeftIds(test_row_dict)) = 2
            /\ Cardinality(Members(test_row_dict, c) \cap RightIds(test_row_dict)) = 1

BuiltPairs(rd) == IF mode = "dedup" THEN DedupPairs(rd) ELSE LinkagePairs(rd)

\* C6: in a Deduplication or Linkage DataModule all three pair sets are unset
\* after construction; the train and validation pair sets are set exactly
\* when setup("fit") has returned and the test pair set exactly when
\* setup("test") has returned, whatever other stages were set up in between;
\* a pair set that is set is the one derived from its own split's rows.
C6_StageLifecycle ==
    IsDedupOrLinkage =>
        /\ train_pos_pair_set =
              IF "fit" \in stages_done THEN Some(BuiltPairs(train_row_dict)) ELSE None
        /\ valid_pos_pair_set =
              IF "fit" \in stages_done THEN Some(BuiltPairs(valid_row_dict)) ELSE None
        /\ test_pos_pair_set =
              IF "test" \in stages_done THEN Some(BuiltPairs(test_row_dict)) ELSE None

C6_Witness ==
    /\ mode = "linkage"
    /\ stages_done = {"test"}
    /\ IsNone(train_pos_pair_set) /\ IsNone(valid_pos_pair_set)
    /\ ~IsNone(test_pos_pair_set) /\ Val(test_pos_pair_set) # {}
    /\ ~IsNone(loader)

TrainLoaders ==
    {epoch_log[i] : i \in 1..Len(epoch_log)}
        \cup (IF ~IsNone(loader) /\ Val(loader).kind = "train" THEN {Val(loader)} ELSE {})

\* C7: every train dataloader (Deduplication, Linkage, Pairwise) is built
\* with the seed random_seed + current_epoch of the trainer attached when it
\* was requested, and with random_seed itself when none was attached; the
\* train dataloaders the trainer loaded for its epochs 0, 1, ..., k carry the
\* seeds random_seed, random_seed + 1, ..., random_seed + k.
C7_TrainSeedIsBasePlusEpoch ==
    /\ \A l \in TrainLoaders :
            l.random_seed =
                IF IsNone(l.at_epoch) THEN Some(random_seed)
                ELSE Some(random_seed + Val(l.at_epoch))
    /\ \A i \in 1..Len(epoch_log) :
            /\ epoch_log[i].at_epoch = Some(i - 1)
            /\ epoch_log[i].random_seed = Some(random_seed + (i - 1))

C7_Witness ==
    /\ mode = "pairwise"
    /\ random_seed = -1
    /\ Len(epoch_log) = 2
    /\ ~IsNone(loader) /\ Val(loader).kind = "train" /\ IsNone(Val(loader).at_epoch)

RowsOfClusterIn(batch, c) ==
    Cardinality({k \in 1..Len(batch) : ClusterOf(train_row_dict, batch[k]) = c})

ClustersIn(batch) == {ClusterOf(train_row_dict, batch[k]) : k \in 1..Len(batch)}

C10_EvalBatchesChunkRowsInOrder ==
    (IsDedupOrLinkage /\ ~IsNone(loader) /\ Val(loader).kind \in {"val", "test"}) =>
        LET l == Val(loader)
            rd == IF l.kind = "val" THEN valid_row_dict ELSE test_row_dict
            n == Len(l.batches)
        IN  /\ Concat(l.batches) = KeyList(rd)
            /\ \A b \in 1..n :
                    /\ Len(l.batches[b]) >= 1
                    /\ Len(l.batches[b]) <= eval_batch_size
                    /\ b < n => Len(l.batches[b]) = eval_batch_size
            /\ IsNone(l.random_seed)

C10_Witness ==
    /\ mode = "linkage"
    /\ ~IsNone(loader) /\ Val(loader).kind = "val"
    /\ Len(Val(loader).batches) = 2
    /\ Len(Val(loader).batches[2]) = 1
    /\ eval_batch_size = 2
    /\ KeyList(valid_row_dict) = <<3, 1, 2>>
    /\ ~IsNone(trainer) /\ Val(trainer).current_epoch = 2

EvalLoaderRequested == ~IsNone(loader) /\ Val(loader).kind \in {"val", "test"}

EvalPosPairs == IF Val(loader).kind = "val" THEN Val(valid_pos_pair_set) ELSE Val(test_pos_pair_set)
EvalNegPairs == IF Val(loader).kind = "val" THEN valid_neg_pair_set ELSE test_neg_pair_set

\* C11: a Pairwise validation or test dataloader is built without a seed,
\* whatever random_seed and the trainer's epoch are, and its batches are the
\* stage's positive then negative pairs in their unshuffled order, cut at the
\* dataloader's batch size: nothing in them depends on random_seed or on the
\* epoch.  A Pairwise train dataloader carries the seed random_seed + epoch
\* (random_seed with no trainer attached).
C11_PairwiseEvalSeedDisabled ==
    mode = "pairwise" =>
        /\ EvalLoaderRequested =>
                LET l == Val(loader)
                IN  /\ IsNone(l.random_seed)
                    /\ IsNone(l.at_epoch)
                    /\ l.batches = Chunk(SortedPairs(EvalPosPairs) \o SortedPairs(EvalNegPairs),
                                         l.batch_size)
        /\ \A l \in TrainLoaders :
                /\ ~IsNone(l.random_seed)
                /\ Val(l.random_seed) =
                        random_seed + (IF IsNone(l.at_epoch) THEN 0 ELSE Val(l.at_epoch))

C11_Witness ==
    /\ mode = "pairwise"
    /\ random_seed = -1
    /\ ~IsNone(trainer) /\ Val(trainer).current_epoch = 2
    /\ Len(epoch_log) = 2 /\ epoch_log[1].batches # epoch_log[2].batches
    /\ ~IsNone(loader) /\ Val(loader).kind = "val"
    /\ Len(Concat(Val(loader).batches)) = 3

\* C16: the per-cluster cap of every Deduplication or Linkage train
\* dataloader is floor(batch_size / 3): three times the cap is at most
\* batch_size and three times the cap plus one is more; the cap is at least 1
\* exactly when batch_size >= 3 and is 0 for batch_size 1 or 2.  The same
\* holds in both modes.
C16_CapIsFloorOfThird ==
    IsDedupOrLinkage =>
        \A l \in TrainLoaders :
            /\ ~IsNone(l.max_cluster_size_in_batch)
            /\ LET cap == Val(l.max_cluster_size_in_batch)
               IN  /\ 3 * cap <= batch_size
                   /\ batch_size < 3 * (cap + 1)
                   /\ cap >= 1 <=> batch_size >= 3
                   /\ batch_size \in {1, 2} => cap = 0

C16_Witness ==
    /\ mode = "linkage"
    /\ batch_size = 2
    /\ ~IsNone(loader) /\ Val(loader).kind = "train"
    /\ Val(loader).max_cluster_size_in_batch = Some(0)
    /\ Len(Val(loader).batches) = 2
    /\ Len(epoch_log) = 1 /\ epoch_log[1].max_cluster_size_in_batch = Some(0)

AllLoaders ==
    {epoch_log[i] : i \in 1..Len(epoch_log)}
        \cup (IF IsNone(loader) THEN {} ELSE {Val(loader)})

FullBatchesOf(l, size) ==
    \A b \in 1..Len(l.batches) :
        /\ Len(l.batches[b]) >= 1
        /\ Len(l.batches[b]) <= size
        /\ b < Len(l.batches) => Len(l.batches[b]) = size

\* C17: every dataloader of a PairwiseDataModule (train, validation, test)
\* is sized by batch_size: all its batches but the last hold exactly
\* batch_size pairs, whatever eval_batch_size is.  A Deduplication or Linkage
\* validation or test dataloader is sized by eval_batch_size, whatever
\* batch_size is.
C17_PairwiseEvalSizedByBatchSize ==
    /\ mode = "pairwise" =>
            \A l \in AllLoaders :
                /\ l.batch_size = batch_size
                /\ FullBatchesOf(l, batch_size)
    /\ (IsDedupOrLinkage /\ EvalLoaderRequested) =>
            /\ Val(loader).batch_size = eval_batch_size
            /\ FullBatchesOf(Val(loader), eval_batch_size)

C17_Witness ==
    /\ mode = "pairwise"
    /\ eval_batch_size = 1 /\ batch_size = 2
    /\ ~IsNone(loader) /\ Val(loader).kind = "test"
    /\ Len(Val(loader).batches) = 2
    /\ Len(Val(loader).batches[1]) = 2

(***************************************************************************)
(* Properties of the train command (CliSpec).                              *)
(***************************************************************************)
Entered(step) == \E i \in 1..Len(events) : events[i] = step
Supplied(option) == ~IsNone(option)

\* C12 (as stated): once _build_datamodule has been entered, with exactly
\* one of source_attr and left_source supplied it has raised KeyError and no
\* DataModule has been constructed and no pair set built; with both
\* supplied a LinkageDataModule was chosen, and the model once built is a
\* LinkageEmbed; with neither a DeduplicationDataModule, and the model an
\* EntityEmbed; whatever the supplied values are.
C12_ModeConfiguration ==
    Entered("datamodule") =>
        LET source_attr == Supplied(kwargs.source_attr)
            left == Supplied(kwargs.left_source)
        IN  /\ (source_attr # left) =>
                    /\ pc = "raised" /\ err = KeyError
                    /\ phase = "new" /\ mode = "none"
                    /\ ~AnyPairSetBuilt /\ IsNone(model_cls)
            /\ (source_attr /\ left) =>
                    /\ mode = "linkage"
                    /\ model_cls \in {None, Some("LinkageEmbed")}
                    /\ left_source = Val(kwargs.left_source)
            /\ (~source_attr /\ ~left) =>
                    /\ mode = "dedup"
                    /\ model_cls \in {None, Some("EntityEmbed")}

\* C14 (as stated): once the row dicts are built, each holds one entry per
\* row of its CSV file, in file order, keyed by the row's id as an integer
\* and with the row's values: no row was dropped or overwritten (unless the
\* loader raised).
C14_RowDictHoldsEveryCsvRow ==
    Entered("row_dicts") =>
        \/ pc = "raised" /\ events[Len(events)] = "row_dicts"
        \/ \A f \in Splits :
                /\ Len(SplitRows(f)) = Len(csv_files[f])
                /\ \A i \in 1..Len(csv_files[f]) :
                        /\ i <= Len(SplitRows(f))
                        /\ SplitRows(f)[i].id = int(csv_files[f][i].id)
                        /\ SplitRows(f)[i].cluster = int(csv_files[f][i].cluster)
                        /\ SplitRows(f)[i].source = csv_files[f][i].source

\* C15 (as stated): the DataModule _build_datamodule built has as its base
\* seed the random_seed of the command line, whatever integer it is, which
\* is also what the global random generators were seeded with; it has the
\* default seed, and the generators are left unseeded, when no random_seed
\* was supplied.
C15_BaseSeedPassThrough ==
    (Entered("datamodule") /\ phase = "ready") =>
        IF Supplied(kwargs.random_seed)
        THEN random_seed = Val(kwargs.random_seed) /\ global_seed = kwargs.random_seed
        ELSE random_seed = DefaultRandomSeed /\ IsNone(global_seed)

DatamoduleConstructionFailed ==
    /\ pc = "raised"
    /\ Len(events) > 0 /\ events[Len(events)] = "datamodule"

IsPrefix(p, q) == Len(p) <= Len(q) /\ \A i \in 1..Len(p) : p[i] = q[i]

\* C13: when _build_datamodule raises (the leak error, or KeyError for a
\* partial source_attr / left_source configuration) the train command ends
\* there: the error is recorded, no DataModule is ready, the model has not
\* been built, no trainer is attached, fit, validate_best and test have not
\* been entered, no pair set and no dataloader has been built, and no
\* further step can run.  The steps entered are always a prefix of: seeds,
\* row dicts, datamodule, model, trainer, fit, validate_best, test; a run
\* that returns has entered all of them, in that order.
C13_FailFastOrdering ==
    /\ DatamoduleConstructionFailed =>
            /\ ~IsNone(err) /\ Val(err).type \in {"KeyError", "ValueError"}
            /\ phase # "ready"
            /\ IsNone(model_cls) /\ IsNone(trainer)
            /\ ~Entered("model") /\ ~Entered("fit")
            /\ ~Entered("validate_best") /\ ~Entered("test")
            /\ ~AnyPairSetBuilt /\ IsNone(loader) /\ epoch_log = <<>>
    /\ (phase = "failed" \/ ~IsNone(err)) => (pc = "raised" /\ ~ENABLED CliNext)
    /\ IsPrefix(events, <<"set_random_seeds", "row_dicts", "datamodule", "model",
                          "trainer", "fit", "validate_best", "test">>)
    /\ pc = "done" =>
            /\ events = <<"set_random_seeds", "row_dicts", "datamodule", "model",
                          "trainer", "fit", "validate_best", "test">>
            /\ phase = "ready" /\ ~IsNone(model_cls) /\ ~IsNone(trainer)
            /\ stages_done = {"fit", "test"}

C13_Witness ==
    /\ DatamoduleConstructionFailed
    /\ LeakErrorRaised
    /\ Val(err).splits = <<"valid", "test">>
    /\ mode = "linkage"
    /\ Len(train_row_dict) > 0

====
